---- MODULE Spec2Model ----
(***************************************************************************)
(* Model of the barcode generation service:                                *)
(*   src/services/barcode_service.py  BarcodeService                       *)
(*   src/app.py                       the /barcodes/generate and           *)
(*                                    /barcodes/upload-excel routes        *)
(*   src/models/database.py           DatabaseManager                      *)
(* Strings are sequences of one-character strings, so that slicing,        *)
(* trimming, case folding and number formatting are computed.              *)
(***************************************************************************)
EXTENDS Integers, Sequences, FiniteSets, TLC

(* ---------------------------- bounds ---------------------------------- *)
MaxItems == 2        \* records per batch
MaxBatches == 2      \* requests served in one behaviour
MaxFaults == 1       \* raised exceptions (archive, render, save, insert) per behaviour
MaxClock == 1        \* seconds the wall clock may advance
NumSuffixes == 2     \* how many values of the random suffix range are drawn
MaxImeiLen == 6      \* length of the IMEI strings fed to the validity check
MaxPrimaryLen == 10  \* length of the primaries fed to the identifier generator
MaxColumns == 2      \* keys of a record fed to the field mapper
MaxRecords == 2      \* records of a batch fed to the field mapper
MaxDescLen == 6      \* length of the product descriptors fed to the color extractor
MaxImages == 12      \* label images in the output directory fed to the paginator
MaxCols == 3         \* grid_cols fed to the paginator
MaxRows == 2         \* grid_rows fed to the paginator
MaxArchiveCalls == 2 \* successive calls of archive_existing_files on their own
MaxOldLabels == 3
MaxAppends == 3
MaxNameIndex == 12    \* label files present before those calls

(* ------------------------ program constants --------------------------- *)
PrefixLen == 8
SuffixWidth == 7
SuffixLo == 1000000
SuffixHi == 9999999
MinImeiLen == 5
DefaultGridCols == 5
DefaultGridRows == 12

(* ---------------------------- strings --------------------------------- *)
DigitChar == <<"0", "1", "2", "3", "4", "5", "6", "7", "8", "9">>

RECURSIVE NatToStr(_)
NatToStr(n) ==
    IF n < 10 THEN <<DigitChar[n + 1]>>
    ELSE NatToStr(n \div 10) \o <<DigitChar[(n % 10) + 1]>>

RECURSIVE ZFill(_, _)
ZFill(s, w) == IF Len(s) >= w THEN s ELSE ZFill(<<"0">> \o s, w)

Whitespace == {" "}

UpperLetters == <<"A", "B", "C", "D", "E", "F", "G", "H", "I", "J", "K", "L", "M",
                  "N", "O", "P", "Q", "R", "S", "T", "U", "V", "W", "X", "Y", "Z">>
LowerLetters == <<"a", "b", "c", "d", "e", "f", "g", "h", "i", "j", "k", "l", "m",
                  "n", "o", "p", "q", "r", "s", "t", "u", "v", "w", "x", "y", "z">>

IndexIn(c, letters) == CHOOSE i \in 1..Len(letters) : letters[i] = c

LowerOf == [c \in {UpperLetters[i] : i \in 1..Len(UpperLetters)} |->
               LowerLetters[IndexIn(c, UpperLetters)]]
UpperOf == [c \in {LowerLetters[i] : i \in 1..Len(LowerLetters)} |->
               UpperLetters[IndexIn(c, LowerLetters)]]

\* str.lower() on one character
LowerChar(c) == IF c \in DOMAIN LowerOf THEN LowerOf[c] ELSE c

\* str.upper() on one character
UpperChar(c) == IF c \in DOMAIN UpperOf THEN UpperOf[c] ELSE c

Upper(s) == [i \in 1..Len(s) |-> UpperChar(s[i])]

Lower(s) == [i \in 1..Len(s) |-> LowerChar(s[i])]

RECURSIVE LStrip(_)
LStrip(s) == IF s # <<>> /\ Head(s) \in Whitespace THEN LStrip(Tail(s)) ELSE s

RECURSIVE RStrip(_)
RStrip(s) ==
    IF s # <<>> /\ s[Len(s)] \in Whitespace THEN RStrip(SubSeq(s, 1, Len(s) - 1)) ELSE s

Strip(s) == RStrip(LStrip(s))

Min(a, b) == IF a < b THEN a ELSE b

Slice(s, k) == SubSeq(s, 1, Min(k, Len(s)))

RECURSIVE SeqsUpTo(_, _)
SeqsUpTo(A, k) ==
    IF k = 0 THEN {<<>>}
    ELSE LET shorter == SeqsUpTo(A, k - 1)
         IN  shorter \cup {Append(s, a) : s \in {t \in shorter : Len(t) = k - 1}, a \in A}

(* ------------------------- IMEI validity ------------------------------ *)
NullSentinels == {<<"n", "a", "n">>, <<"n", "o", "n", "e">>, <<"n", "u", "l", "l">>, <<>>}

ImeiRejectedOffByOne(imei) ==
    \/ imei = <<>>
    \/ Lower(imei) \in NullSentinels
    \/ Len(Strip(imei)) <= MinImeiLen

\* generate_barcodes_from_data, lines 506-517: the two `continue` branches
ImeiRejected(imei) ==
    \/ imei = <<>>
    \/ Lower(imei) \in NullSentinels
    \/ Len(Strip(imei)) < MinImeiLen

(* ---------------------- identifier generator -------------------------- *)
\* line 101: random.randint(10**6, 10**7 - 1); the first NumSuffixes values are drawn
Suffixes == {n \in SuffixLo .. (SuffixLo + NumSuffixes - 1) : n <= SuffixHi}

CandidateWholePrimary(base_imei, n) == base_imei \o ZFill(NatToStr(n), SuffixWidth)

\* lines 99-102: prefix + suffix
Candidate(base_imei, n) == Slice(base_imei, PrefixLen) \o ZFill(NatToStr(n), SuffixWidth)

CandidateAcceptedAlways(candidate, used_set) == TRUE

\* generate_unique_imei, line 103: `if candidate not in used_set`
CandidateAccepted(candidate, used_set) == candidate \notin used_set

(* --------------------------- field mapper ------------------------------ *)
\* lines 445-448
ImeiNames ==
    << <<"i", "m", "e", "i">>,
       <<"i", "m", "e", "i", "/", "s", "n">>,
       <<"i", "m", "e", "i", "_", "s", "n">>,
       <<"s", "e", "r", "i", "a", "l">>,
       <<"s", "e", "r", "i", "a", "l", "_", "n", "u", "m", "b", "e", "r">>,
       <<"s", "n">>,
       <<"s", "e", "r", "i", "a", "l", "_", "n", "o">>,
       <<"d", "e", "v", "i", "c", "e", "_", "i", "d">>,
       <<"d", "e", "v", "i", "c", "e", "_", "i", "m", "e", "i">>,
       <<"p", "h", "o", "n", "e", "_", "i", "m", "e", "i">>,
       <<"m", "o", "b", "i", "l", "e", "_", "i", "m", "e", "i">>,
       <<"i", "m", "e", "i", "_", "n", "u", "m", "b", "e", "r">> >>

\* lines 449-452
ModelNames ==
    << <<"m", "o", "d", "e", "l">>,
       <<"m", "o", "d", "e", "l", "_", "n", "a", "m", "e">>,
       <<"d", "e", "v", "i", "c", "e", "_", "m", "o", "d", "e", "l">>,
       <<"p", "h", "o", "n", "e", "_", "m", "o", "d", "e", "l">>,
       <<"m", "o", "b", "i", "l", "e", "_", "m", "o", "d", "e", "l">>,
       <<"d", "e", "v", "i", "c", "e", "_", "t", "y", "p", "e">>,
       <<"p", "r", "o", "d", "u", "c", "t", "_", "m", "o", "d", "e", "l">>,
       <<"m", "o", "d", "e", "l", "_", "c", "o", "d", "e">> >>

\* lines 453-456
ProductNames ==
    << <<"p", "r", "o", "d", "u", "c", "t">>,
       <<"p", "r", "o", "d", "u", "c", "t", "_", "n", "a", "m", "e">>,
       <<"d", "e", "v", "i", "c", "e">>,
       <<"d", "e", "v", "i", "c", "e", "_", "n", "a", "m", "e">>,
       <<"p", "h", "o", "n", "e", "_", "n", "a", "m", "e">>,
       <<"m", "o", "b", "i", "l", "e", "_", "n", "a", "m", "e">>,
       <<"p", "r", "o", "d", "u", "c", "t", "_", "d", "e", "s", "c", "r", "i", "p", "t", "i", "o", "n">>,
       <<"i", "t", "e", "m", "_", "n", "a", "m", "e">> >>

\* lines 457-460
ColorNames ==
    << <<"c", "o", "l", "o", "r">>,
       <<"c", "o", "l", "o", "u", "r">>,
       <<"d", "e", "v", "i", "c", "e", "_", "c", "o", "l", "o", "r">>,
       <<"p", "h", "o", "n", "e", "_", "c", "o", "l", "o", "r">>,
       <<"m", "o", "b", "i", "l", "e", "_", "c", "o", "l", "o", "r">>,
       <<"c", "o", "l", "o", "r", "_", "n", "a", "m", "e">>,
       <<"f", "i", "n", "i", "s", "h">>,
       <<"v", "a", "r", "i", "a", "n", "t">> >>

\* lines 461-464
DnNames ==
    << <<"d", "n">>,
       <<"d", "/", "n">>,
       <<"d", "e", "v", "i", "c", "e", "_", "n", "u", "m", "b", "e", "r">>,
       <<"d", "e", "v", "i", "c", "e", "_", "n", "o">>,
       <<"p", "a", "r", "t", "_", "n", "u", "m", "b", "e", "r">>,
       <<"p", "a", "r", "t", "_", "n", "o">>,
       <<"s", "k", "u">>,
       <<"i", "t", "e", "m", "_", "n", "u", "m", "b", "e", "r">> >>

\* lines 465-468
BoxIdNames ==
    << <<"b", "o", "x", "_", "i", "d">>,
       <<"b", "o", "x", "i", "d">>,
       <<"b", "o", "x", "_", "n", "u", "m", "b", "e", "r">>,
       <<"b", "o", "x", "_", "n", "o">>,
       <<"p", "a", "c", "k", "a", "g", "e", "_", "i", "d">>,
       <<"p", "a", "c", "k", "a", "g", "e", "_", "n", "u", "m", "b", "e", "r">>,
       <<"c", "a", "r", "t", "o", "n", "_", "i", "d">>,
       <<"c", "o", "n", "t", "a", "i", "n", "e", "r", "_", "i", "d">> >>

CanonicalFields == {"imei", "model", "product", "color", "dn", "box_id"}

PossibleNames ==
    [imei |-> ImeiNames, model |-> ModelNames, product |-> ProductNames,
     color |-> ColorNames, dn |-> DnNames, box_id |-> BoxIdNames]

\* Python's None where a column name is expected
NoColumn == <<"None">>

\* `a in b` on strings
IsSubstring(a, b) == \E i \in 0..(Len(b) - Len(a)) : SubSeq(b, i + 1, i + Len(a)) = a

ColumnMatchesOneWay(possible_lower, col_lower) == IsSubstring(possible_lower, col_lower)

\* line 423: `possible_lower in col_lower or col_lower in possible_lower`
ColumnMatches(possible_lower, col_lower) ==
    IsSubstring(possible_lower, col_lower) \/ IsSubstring(col_lower, possible_lower)

\* line 418: [col.lower().strip() for col in columns]
ColumnsLower(columns) == [i \in 1..Len(columns) |-> Strip(Lower(columns[i]))]

\* lines 422-424: the inner loop from position i on; 0 when it falls through
RECURSIVE FirstColumn(_, _, _)
FirstColumn(columns_lower, possible_lower, i) ==
    IF i > Len(columns_lower) THEN 0
    ELSE IF ColumnMatches(possible_lower, columns_lower[i]) THEN i
    ELSE FirstColumn(columns_lower, possible_lower, i + 1)

\* lines 420-426: the outer loop from variant k on
RECURSIVE ScanPossibleNames(_, _, _)
ScanPossibleNames(columns, possible_names, k) ==
    IF k > Len(possible_names) THEN NoColumn
    ELSE LET i == FirstColumn(ColumnsLower(columns), Strip(Lower(possible_names[k])), 1)
         IN  IF i # 0 THEN columns[i]
             ELSE ScanPossibleNames(columns, possible_names, k + 1)

\* _normalize_column_name, lines 416-426
NormalizeColumnName(columns, possible_names) == ScanPossibleNames(columns, possible_names, 1)

(* -------------------------- color extractor --------------------------- *)
\* str.split(): the maximal runs of non-whitespace characters, from position i on
RECURSIVE SplitFrom(_, _, _, _)
SplitFrom(s, i, word, parts) ==
    IF i > Len(s) THEN (IF word = <<>> THEN parts ELSE Append(parts, word))
    ELSE IF s[i] \in Whitespace
         THEN SplitFrom(s, i + 1, <<>>, IF word = <<>> THEN parts ELSE Append(parts, word))
         ELSE SplitFrom(s, i + 1, Append(word, s[i]), parts)

Split(s) == SplitFrom(s, 1, <<>>, <<>>)

\* ' '.join(parts)
RECURSIVE Join(_)
Join(parts) ==
    IF parts = <<>> THEN <<>>
    ELSE IF Len(parts) = 1 THEN parts[1]
    ELSE parts[1] \o <<" ">> \o Join(Tail(parts))

\* Python's None where a descriptor is expected
NoDescriptor == <<"None">>

NanLiteral == <<"n", "a", "n">>
UnknownColor == <<"U", "n", "k", "n", "o", "w", "n", " ", "C", "o", "l", "o", "r">>

\* line 123: `'+' in part and any(char.isdigit() for char in part)`
IsStorageSpec(part) ==
    /\ \E i \in 1..Len(part) : part[i] = "+"
    /\ \E i \in 1..Len(part) : \E d \in 1..Len(DigitChar) : part[i] = DigitChar[d]

\* lines 120-126: index after the first storage spec, 0 when there is none
RECURSIVE ColorStartIndex(_, _)
ColorStartIndex(parts, i) ==
    IF i > Len(parts) THEN 0
    ELSE IF IsStorageSpec(parts[i]) THEN i
    ELSE ColorStartIndex(parts, i + 1)

FallbackPartsLastOne(parts) == SubSeq(parts, Len(parts), Len(parts))

\* line 137: parts[-2:]
FallbackParts(parts) == SubSeq(parts, Len(parts) - 1, Len(parts))

\* extract_color_from_product, lines 107-140
ExtractColorFromProduct(product_string) ==
    IF product_string = NoDescriptor \/ product_string = <<>> \/ product_string = NanLiteral
    THEN UnknownColor
    ELSE LET parts == Split(Strip(product_string))
             color_start_index == ColorStartIndex(parts, 1)
         IN  IF Len(parts) < 2 THEN UnknownColor
             ELSE IF color_start_index > 0 /\ color_start_index < Len(parts)
                  THEN LET color == Join(SubSeq(parts, color_start_index + 1, Len(parts)))
                       IN  IF color # <<>> THEN Upper(color) ELSE UnknownColor
                  ELSE Upper(Join(FallbackParts(parts)))

(* --------------------------- grid paginator --------------------------- *)
\* the characters of a file name in code point order
AsciiOrder == <<".">> \o DigitChar \o UpperLetters \o <<"_">> \o LowerLetters

\* `a < b` on strings: by code point at the first difference, a prefix first
RECURSIVE LexLessFrom(_, _, _)
LexLessFrom(a, b, i) ==
    IF i > Len(a) THEN i <= Len(b)
    ELSE IF i > Len(b) THEN FALSE
    ELSE IF a[i] = b[i] THEN LexLessFrom(a, b, i + 1)
    ELSE IndexIn(a[i], AsciiOrder) < IndexIn(b[i], AsciiOrder)

LexLess(a, b) == LexLessFrom(a, b, 1)

\* line 541: f"barcode_label_{imei}_{index+1}.png"
LabelFileName(name) ==
    <<"b", "a", "r", "c", "o", "d", "e", "_", "l", "a", "b", "e", "l", "_">> \o name.imei \o <<"_">> \o NatToStr(name.n) \o <<".", "p", "n", "g">>

\* line 627: glob.glob(os.path.join(self.output_dir, "*.png"))
Glob(dir) == {LabelFileName(f.name) : f \in dir}

\* line 628: barcode_files.sort()
RECURSIVE SortFiles(_)
SortFiles(S) ==
    IF S = {} THEN <<>>
    ELSE LET least == CHOOSE x \in S : \A y \in S \ {x} : LexLess(x, y)
         IN  <<least>> \o SortFiles(S \ {least})

NoBarcodeFilesNever(barcode_files) == FALSE

\* line 633: `if not barcode_files`
NoBarcodeFiles(barcode_files) == barcode_files = <<>>

TotalPagesFloor(count, images_per_page) == count \div images_per_page

\* line 660: (len(barcode_files) + images_per_page - 1) // images_per_page
TotalPages(count, images_per_page) == (count + images_per_page - 1) \div images_per_page

\* lines 667-669: barcode_files[start_idx:end_idx]
PageImages(barcode_files, page_num, images_per_page) ==
    LET start_idx == page_num * images_per_page
        end_idx == Min(start_idx + images_per_page, Len(barcode_files))
    IN  SubSeq(barcode_files, start_idx + 1, end_idx)

\* line 676: row = i // grid_cols
GridRow(i, grid_cols) == i \div grid_cols

GridColZero(i, grid_cols) == 0

\* line 677: col = i % grid_cols
GridCol(i, grid_cols) == i % grid_cols

(* ----------------------------- inputs --------------------------------- *)
ImeiA == <<"1", "2", "3", "4", "5", "6", "7", "8", "9">>
ImeiShort == <<"1", "2", "3", "4">>
ImeiValues == {ImeiShort, ImeiA}
NoValue == <<>>
Imei2Values == {NoValue, Candidate(ImeiA, SuffixLo)}
BoxIdValues == {<<"B", "1">>}

ImeiAlphabet == {" ", "1", "n", "a", "N"}
SentinelSamples ==
    { <<"N", "U", "L", "L">>, <<"n", "u", "l", "l">>, <<"N", "o", "n", "e">>,
      <<" ", "N", "U", "L", "L", " ">> }
ValidityInputs == SeqsUpTo(ImeiAlphabet, MaxImeiLen) \cup SentinelSamples

Req == {"r1", "r2"}
FirstOf(S) == IF "r1" \in S THEN "r1" ELSE "r2"
NoReq == "none"
NoFile == <<"absent">>

VARIABLES
    task,      \* per request: the handler's local variables and position
    loop,      \* the request whose coroutine holds the event loop, or NoReq
    clock,     \* wall clock, in seconds
    labelDir,  \* output_dir: the PNG files
    pdfDir,    \* pdf_dir: the PDF files
    archived,  \* files relocated by the archive manager
    db,        \* table barcode_files, in insertion order
    sessions,  \* table generation_sessions, in insertion order
    logFile,   \* logs/imei_log.csv: NoFile, or its rows (header first)
    started,   \* requests that have arrived
    faults,    \* exceptions raised so far
    vin,       \* input of the pure-function harness
    vout       \* its output

vars == <<task, loop, clock, labelDir, pdfDir, archived, db, sessions, logFile,
          started, faults, vin, vout>>

(* ------------------------ identifier log ------------------------------ *)
HeaderRow == [imei |-> <<"I", "M", "E", "I">>, imei2 |-> <<"I", "M", "E", "I", "2">>,
              by |-> 0, auto |-> FALSE]

\* _load_used_imeis, lines 73-85: the IMEI2 column of every row after the header
LoadUsedImeis(file) ==
    IF file = NoFile THEN {}
    ELSE {file[i].imei2 : i \in 2..Len(file)} \ {<<>>}

AppendImeiLogHeaderAlways(file, row) ==
    IF file = NoFile THEN <<HeaderRow, row>> ELSE file \o <<HeaderRow, row>>

\* _append_imei_log, lines 87-96: header on first write, then the row
AppendImeiLog(file, row) ==
    IF file = NoFile THEN <<HeaderRow, row>> ELSE Append(file, row)

\* the data lines of the log (every row but the header)
DataLines == IF logFile = NoFile THEN <<>> ELSE Tail(logFile)

(* --------------------------- scheduling ------------------------------- *)
SuspendsAtRecordLoop(p) == p \in {"start", "uploading", "validate"}

\* where a request's coroutine gives up the event loop: before the handler body
\* runs (app.py 82, 139) and at `await file.read()` / `await save_uploaded_file`
\* (app.py 174-177). generate_barcodes_from_data (428-581) holds no await.
SuspendsAt(p) == p \in {"start", "uploading"}

Yield(r, p) == IF SuspendsAt(p) \/ p = "idle" THEN NoReq ELSE r

Runs(r) == loop = r \/ (loop = NoReq /\ SuspendsAt(task[r].pc))

Put(r, t) ==
    /\ task' = [task EXCEPT ![r] = t]
    /\ loop' = Yield(r, t.pc)

(* ------------------------------ tasks --------------------------------- *)
IdleTask ==
    [pc |-> "idle", route |-> "json", n |-> 0, auto |-> FALSE, wantPdf |-> FALSE,
     bid |-> 0, session |-> -1, used |-> {}, idx |-> 0, files |-> <<>>,
     outcome |-> <<>>, imei |-> <<>>, second |-> <<>>, gen |-> FALSE,
     archiveDone |-> FALSE, archiveRaised |-> FALSE, resp |-> "none", pdf |-> "none"]

Routes == {"json", "excel"}

\* a request arrives and waits for the event loop; it takes the first free slot
Arrive(r) ==
    /\ task[r].pc = "idle"
    /\ \A q \in Req : task[q].pc = "idle" => r = FirstOf({q, r})
    /\ started < MaxBatches
    /\ task' = [task EXCEPT ![r] = [IdleTask EXCEPT !.pc = "start", !.bid = started + 1]]
    /\ started' = started + 1
    /\ UNCHANGED <<loop, clock, labelDir, pdfDir, archived, db, sessions, logFile,
                   faults, vin, vout>>

BatchEntryPcNoArchive == "init"

\* generate_barcodes_from_data, line 431: its first statement archives
BatchEntryPc == "archive"

\* app.py 90-96 and 194-198: the items and the flag the batch is called with.
\* The request's parameters are first read here, so they are drawn here.
CallBatch(t, k, a) == [t EXCEPT !.n = k, !.auto = a, !.pc = BatchEntryPc]

\* the handler starts to run: app.py 88-96 (json), 149-177 (excel)
Start(r) ==
    /\ task[r].pc = "start"
    /\ Runs(r)
    /\ \/ \E k \in 0..MaxItems, a \in BOOLEAN :
             Put(r, CallBatch([task[r] EXCEPT !.route = "json"], k, a))
       \/ Put(r, [task[r] EXCEPT !.route = "excel", !.pc = "uploading"])
    /\ UNCHANGED <<clock, labelDir, pdfDir, archived, db, sessions, logFile,
                   started, faults, vin, vout>>

\* app.py 174-198: the upload is read and saved, then the batch is generated
Upload(r) ==
    /\ task[r].pc = "uploading"
    /\ Runs(r)
    /\ \E k \in 0..MaxItems, a \in BOOLEAN : Put(r, CallBatch(task[r], k, a))
    /\ UNCHANGED <<clock, labelDir, pdfDir, archived, db, sessions, logFile,
                   started, faults, vin, vout>>

(* ----------------------------- archiving ------------------------------ *)
ArchivePcOnRaiseSwallowed == "init"

\* generate_barcodes_from_data, line 431: the call is not inside any try
ArchivePcOnRaise == "raised"

\* ArchiveManager.archive_files: every PNG and PDF is relocated, or the call
\* raises and nothing is relocated
ArchiveFiles(files) == archived \cup files

\* archive_existing_files, lines 42-70, called at line 431
Archive(r) ==
    /\ task[r].pc = "archive"
    /\ Runs(r)
    /\ \/ /\ labelDir = {} /\ pdfDir = {}
          /\ Put(r, [task[r] EXCEPT !.pc = "init", !.archiveDone = TRUE])
          /\ UNCHANGED <<labelDir, pdfDir, archived, faults>>
       \/ /\ labelDir # {} \/ pdfDir # {}
          /\ archived' = ArchiveFiles(labelDir \cup pdfDir)
          /\ labelDir' = {}
          /\ pdfDir' = {}
          /\ Put(r, [task[r] EXCEPT !.pc = "init", !.archiveDone = TRUE])
          /\ UNCHANGED faults
       \/ /\ labelDir # {} \/ pdfDir # {}
          /\ faults < MaxFaults
          /\ faults' = faults + 1
          /\ Put(r, [task[r] EXCEPT !.pc = ArchivePcOnRaise, !.archiveRaised = TRUE])
          /\ UNCHANGED <<labelDir, pdfDir, archived>>
    /\ UNCHANGED <<clock, db, sessions, logFile, started, vin, vout>>

(* ------------------------- batch generation --------------------------- *)
\* the loop header at line 490 and the return at line 581
LoopPc(t) == IF t.idx < t.n THEN "validate" ELSE "return"

\* lines 434-488: session id, generated_files, used_imeis, column mapping;
\* datetime.now() returns the clock, which may have advanced
InitBatch(r) ==
    /\ task[r].pc = "init"
    /\ Runs(r)
    /\ \E now \in clock..MaxClock :
          /\ clock' = now
          /\ Put(r, [task[r] EXCEPT
                        !.session = now,
                        !.files = <<>>,
                        !.used = IF task[r].auto THEN LoadUsedImeis(logFile) ELSE {},
                        !.pc = LoopPc(task[r])])
    /\ UNCHANGED <<labelDir, pdfDir, archived, db, sessions, logFile, started,
                   faults, vin, vout>>

\* the record is done with: next iteration of the loop at line 490
NextRecord(t, what) ==
    LET u == [t EXCEPT !.idx = t.idx + 1, !.outcome = Append(t.outcome, what),
                       !.imei = <<>>, !.second = <<>>, !.gen = FALSE]
    IN  [u EXCEPT !.pc = LoopPc(u)]

OnRejectedConsumes(t) ==
    NextRecord([t EXCEPT !.used = @ \cup {Candidate(ImeiA, SuffixHi)}], "invalid")

\* lines 508 and 517: `continue`, before anything is generated or written
OnRejected(t) == NextRecord(t, "invalid")

\* lines 493-517: the IMEI is read and validated
Validate(r) ==
    /\ task[r].pc = "validate"
    /\ Runs(r)
    /\ \E imei \in ImeiValues :
          IF ImeiRejected(imei)
          THEN Put(r, OnRejected(task[r]))
          ELSE Put(r, [task[r] EXCEPT !.imei = Strip(imei), !.pc = "resolve"])
    /\ UNCHANGED <<clock, labelDir, pdfDir, archived, db, sessions, logFile,
                   started, faults, vin, vout>>

\* lines 519-528: the second barcode's value
Resolve(r) ==
    /\ task[r].pc = "resolve"
    /\ Runs(r)
    /\ \/ /\ ~task[r].auto
          /\ \E box \in BoxIdValues :
                Put(r, [task[r] EXCEPT !.second = box, !.pc = "render"])
       \/ /\ task[r].auto
          /\ \E imei2 \in Imei2Values :
                IF imei2 # NoValue
                THEN Put(r, [task[r] EXCEPT !.second = imei2, !.pc = "render"])
                ELSE Put(r, [task[r] EXCEPT !.pc = "generate"])
    /\ UNCHANGED <<clock, labelDir, pdfDir, archived, db, sessions, logFile,
                   started, faults, vin, vout>>

\* generate_unique_imei, lines 98-105: one turn of the `while True` loop
Generate(r) ==
    /\ task[r].pc = "generate"
    /\ Runs(r)
    /\ \E n \in Suffixes :
          LET candidate == Candidate(task[r].imei, n)
          IN  IF CandidateAccepted(candidate, task[r].used)
              THEN Put(r, [task[r] EXCEPT !.used = @ \cup {candidate},
                                          !.second = candidate, !.gen = TRUE,
                                          !.pc = "render"])
              ELSE Put(r, task[r])
    /\ UNCHANGED <<clock, labelDir, pdfDir, archived, db, sessions, logFile,
                   started, faults, vin, vout>>

OnRecordRaisePropagate(t) == [t EXCEPT !.pc = "raised"]

\* lines 578-579: `except Exception` inside the loop; the loop goes on
OnRecordRaise(t) == NextRecord(t, "error")

RecordRaises(r) ==
    /\ faults < MaxFaults
    /\ faults' = faults + 1
    /\ Put(r, OnRecordRaise(task[r]))

\* lines 531-538: create_barcode_label
Render(r) ==
    /\ task[r].pc = "render"
    /\ Runs(r)
    /\ \/ /\ Put(r, [task[r] EXCEPT !.pc = "save"])
          /\ UNCHANGED faults
       \/ RecordRaises(r)
    /\ UNCHANGED <<clock, labelDir, pdfDir, archived, db, sessions, logFile,
                   started, vin, vout>>

LabelNameNoIndex(t) == [imei |-> t.imei, n |-> 1]

\* line 541: barcode_label_<imei>_<index+1>.png
LabelName(t) == [imei |-> t.imei, n |-> t.idx + 1]

WriteFile(dir, f) == {g \in dir : g.name # f.name} \cup {f}

SavedPcSkipsInsert == "append"

\* lines 545-564: once the label is saved its record is inserted
SavedPc == "insert"

\* lines 541-543: label.save
Save(r) ==
    /\ task[r].pc = "save"
    /\ Runs(r)
    /\ \/ /\ labelDir' = WriteFile(labelDir,
                            [name |-> LabelName(task[r]), second |-> task[r].second,
                             by |-> task[r].bid])
          /\ Put(r, [task[r] EXCEPT !.pc = SavedPc])
          /\ UNCHANGED faults
       \/ /\ RecordRaises(r)
          /\ UNCHANGED labelDir
    /\ UNCHANGED <<clock, pdfDir, archived, db, sessions, logFile, started, vin, vout>>

\* lines 546-567: insert_barcode_record (database.py 93-110), generated_files.append
Insert(r) ==
    /\ task[r].pc = "insert"
    /\ Runs(r)
    /\ \/ /\ db' = Append(db, [filename |-> LabelName(task[r]), type |-> "png",
                               session |-> task[r].session, imei |-> task[r].imei,
                               box_id |-> task[r].second, by |-> task[r].bid])
          /\ Put(r, [task[r] EXCEPT !.files = Append(@, LabelName(task[r])),
                                    !.pc = "append"])
          /\ UNCHANGED faults
       \/ /\ RecordRaises(r)
          /\ UNCHANGED db
    /\ UNCHANGED <<clock, labelDir, pdfDir, archived, sessions, logFile, started,
                   vin, vout>>

LogsPairGeneratedOnly(t) == t.auto /\ t.gen

\* line 570: `if auto_generate_second_imei and second_value`
LogsPair(t) == t.auto /\ t.second # NoValue

\* lines 569-576: the pair is appended to the identifier log
AppendLog(r) ==
    /\ task[r].pc = "append"
    /\ Runs(r)
    /\ logFile' =
          IF LogsPair(task[r])
          THEN AppendImeiLog(logFile, [imei |-> task[r].imei, imei2 |-> task[r].second,
                                       by |-> task[r].bid, auto |-> task[r].gen])
          ELSE logFile
    /\ Put(r, NextRecord(task[r], "ok"))
    /\ UNCHANGED <<clock, labelDir, pdfDir, archived, db, sessions, started,
                   faults, vin, vout>>

\* line 581: return generated_files, session_id
Return(r) ==
    /\ task[r].pc = "return"
    /\ Runs(r)
    /\ Put(r, [task[r] EXCEPT !.pc = "check"])
    /\ UNCHANGED <<clock, labelDir, pdfDir, archived, db, sessions, logFile,
                   started, faults, vin, vout>>
(* ------------------------------ routes -------------------------------- *)
\* app.py 105: `if not generated_files`, generated_files being the pair returned
ZeroOutputJson(files, session_id) == Len(<<files, session_id>>) = 0

\* app.py 217: `if not files`
ZeroOutputExcel(files) == Len(files) = 0

\* app.py 99-109 and 131-135; app.py 200-221 and 246-247
Check(r) ==
    /\ task[r].pc = "check"
    /\ Runs(r)
    /\ Put(r, IF task[r].route = "json"
              THEN IF ZeroOutputJson(task[r].files, task[r].session)
                   THEN [task[r] EXCEPT !.resp = "http500", !.pc = "done"]
                   ELSE [task[r] EXCEPT !.pc = "pdf"]
              ELSE IF ZeroOutputExcel(task[r].files)
                   THEN [task[r] EXCEPT !.resp = "http400", !.pc = "done"]
                   ELSE [task[r] EXCEPT !.pc = "pdf"])
    /\ UNCHANGED <<clock, labelDir, pdfDir, archived, db, sessions, logFile,
                   started, faults, vin, vout>>

\* create_pdf_from_barcodes, lines 607-721, called at app.py 113-120 and 225-230;
\* first disjunct: create_pdf is off, or no PNG is found and None is returned
Pdf(r) ==
    /\ task[r].pc = "pdf"
    /\ Runs(r)
    /\ \/ /\ Put(r, [task[r] EXCEPT !.resp = "ok", !.pc = "done"])
          /\ UNCHANGED <<clock, pdfDir, db>>
       \/ /\ labelDir # {}
          /\ pdfDir' = WriteFile(pdfDir, [name |-> [pdf |-> clock], labels |-> labelDir,
                                          by |-> task[r].bid])
          /\ db' = Append(db, [filename |-> [pdf |-> clock], type |-> "pdf",
                               session |-> task[r].session, imei |-> NoValue,
                               box_id |-> NoValue, by |-> task[r].bid])
          /\ Put(r, [task[r] EXCEPT !.resp = "ok", !.wantPdf = TRUE, !.pdf = "made",
                                    !.pc = "done"])
    /\ UNCHANGED <<clock, labelDir, archived, sessions, logFile, started, faults, vin, vout>>

\* app.py 131-135 (json: HTTP 500) and 211-215 (excel: HTTP 400)
HandlerExcept(r) ==
    /\ task[r].pc = "raised"
    /\ Runs(r)
    /\ Put(r, [task[r] EXCEPT !.resp = IF task[r].route = "json" THEN "http500"
                                        ELSE "http400",
                              !.pc = "done"])
    /\ UNCHANGED <<clock, labelDir, pdfDir, archived, db, sessions, logFile,
                   started, faults, vin, vout>>

\* the response leaves; the handler's locals are gone
Respond(r) ==
    /\ task[r].pc = "done"
    /\ Runs(r)
    /\ Put(r, IdleTask)
    /\ UNCHANGED <<clock, labelDir, pdfDir, archived, db, sessions, logFile,
                   started, faults, vin, vout>>

(* -------------------------- specification ----------------------------- *)
Init ==
    /\ task = [r \in Req |-> IdleTask]
    /\ loop = NoReq
    /\ clock = 0
    /\ labelDir = {}
    /\ pdfDir = {}
    /\ archived = {}
    /\ db = <<>>
    /\ sessions = <<>>
    /\ logFile = NoFile
    /\ started = 0
    /\ faults = 0
    /\ vin = <<>>
    /\ vout = "none"

Next ==
    \E r \in Req :
        \/ Arrive(r)
        \/ Start(r)
        \/ Upload(r)
        \/ Archive(r)
        \/ InitBatch(r)
        \/ Validate(r)
        \/ Resolve(r)
        \/ Generate(r)
        \/ Render(r)
        \/ Save(r)
        \/ Insert(r)
        \/ AppendLog(r)
        \/ Return(r)
        \/ Check(r)
        \/ Pdf(r)
        \/ HandlerExcept(r)
        \/ Respond(r)

Spec == Init /\ [][Next]_vars

\* the event loop keeps running the coroutine that holds it, and a draw of
\* random.randint that can be accepted is eventually made
SpecLive == Spec /\ WF_vars(Next)

(* ------------------- the validity check on its own -------------------- *)
InitValidity ==
    /\ task = [r \in Req |-> IdleTask]
    /\ loop = NoReq
    /\ clock = 0
    /\ labelDir = {}
    /\ pdfDir = {}
    /\ archived = {}
    /\ db = <<>>
    /\ sessions = <<>>
    /\ logFile = NoFile
    /\ started = 0
    /\ faults = 0
    /\ vin \in ValidityInputs
    /\ vout = "none"

\* lines 506-517 applied to one IMEI value
CheckValidity ==
    /\ vout = "none"
    /\ vout' = IF ImeiRejected(vin) THEN "skipped" ELSE "accepted"
    /\ UNCHANGED <<task, loop, clock, labelDir, pdfDir, archived, db, sessions,
                   logFile, started, faults, vin>>

NextValidity == CheckValidity

SpecValidity == InitValidity /\ [][NextValidity]_vars
(* ---------------- the identifier generator on its own ----------------- *)
\* the primaries: every prefix of 1234567890123... up to MaxPrimaryLen characters
LongPrimary == [i \in 1..MaxPrimaryLen |-> DigitChar[(i % 10) + 1]]
GeneratorPrimaries == {SubSeq(LongPrimary, 1, k) : k \in 0..MaxPrimaryLen}

\* line 101: the draws of random.randint, both ends of the range included
SuffixDraws == Suffixes \cup {SuffixHi}

InitGenerator ==
    /\ task = [r \in Req |-> IdleTask]
    /\ loop = NoReq
    /\ clock = 0
    /\ labelDir = {}
    /\ pdfDir = {}
    /\ archived = {}
    /\ db = <<>>
    /\ sessions = <<>>
    /\ logFile = NoFile
    /\ started = 0
    /\ faults = 0
    /\ \E b \in GeneratorPrimaries :
          \E u \in SUBSET {Candidate(b, n) : n \in SuffixDraws} :
              vin = [base_imei |-> b, used_set |-> u]
    /\ vout = [pc |-> "call", used_set |-> vin.used_set, result |-> <<>>]

\* generate_unique_imei, lines 98-105: one turn of the `while True` loop
GenerateUniqueImei ==
    /\ vout.pc = "call"
    /\ \E n \in SuffixDraws :
          LET candidate == Candidate(vin.base_imei, n)
          IN  IF CandidateAccepted(candidate, vout.used_set)
              THEN vout' = [pc |-> "returned", used_set |-> vout.used_set \cup {candidate},
                            result |-> candidate]
              ELSE vout' = vout
    /\ UNCHANGED <<task, loop, clock, labelDir, pdfDir, archived, db, sessions,
                   logFile, started, faults, vin>>

NextGenerator == GenerateUniqueImei

SpecGenerator == InitGenerator /\ [][NextGenerator]_vars
(* -------------------- the field mapper on its own --------------------- *)
KeySerialNumber == <<"S", "e", "r", "i", "a", "l", " ", "N", "u", "m", "b", "e", "r">>
KeyDeviceModel == <<"D", "e", "v", "i", "c", "e", " ", "M", "o", "d", "e", "l">>
KeyColour == <<"C", "o", "l", "o", "u", "r">>
KeyImei == <<"I", "M", "E", "I">>
KeyIdSpace == <<"I", "D", " ">>
KeyQty == <<"Q", "t", "y">>
KeyName == <<"N", "a", "m", "e">>
KeyEmpty == <<>>

KeyPool == {KeySerialNumber, KeyDeviceModel, KeyColour, KeyImei, KeyIdSpace, KeyQty,
            KeyName, KeyEmpty}

\* lines 494-504: the keys read when no column was mapped
LiteralKey ==
    [model |-> <<"m", "o", "d", "e", "l">>, product |-> <<"p", "r", "o", "d", "u", "c", "t">>, color |-> <<"c", "o", "l", "o", "r">>, dn |-> <<"d", "n">>, box_id |-> <<"b", "o", "x", "_", "i", "d">>]

\* lines 494-504: the values used when the key is absent ('' is NoCell's key)
DefaultValue ==
    [model |-> <<"U", "n", "k", "n", "o", "w", "n">>, product |-> <<>>, color |-> <<"U", "n", "k", "n", "o", "w", "n", " ", "C", "o", "l", "o", "r">>, dn |-> <<"M", "8", "N", "7">>, box_id |-> NoColumn]

\* line 493: the key read when no column was mapped, item.get('imei', '')
DefaultImeiKey == <<"i", "m", "e", "i">>

ExampleColumns == <<KeySerialNumber, KeyDeviceModel, KeyColour>>

\* line 441: list(items[0].keys()), the keys of a dict being distinct
ColumnLists ==
    {c \in SeqsUpTo(KeyPool, MaxColumns) :
        \A i, j \in 1..Len(c) : i # j => c[i] # c[j]} \cup {ExampleColumns}

\* the records after the first: the same keys, no key, the one key "imei", or the
\* one key "box_id"
LaterRecords(first) == {first, <<>>, <<DefaultImeiKey>>, <<LiteralKey["box_id"]>>}

\* the value item.get(key, '') of record j: the cell it is read from, or ''
NoCell == [rec |-> 0, key |-> <<>>]
Get(items, j, key) ==
    IF \E i \in 1..Len(items[j]) : items[j][i] = key
    THEN [rec |-> j, key |-> key] ELSE NoCell

\* truth value of an Optional[str]
Truthy(col) == col # NoColumn /\ col # <<>>

HasKey(items, j, key) == \E i \in 1..Len(items[j]) : items[j][i] = key

\* item.get(key, default): the cell, or the default as a value of no record
GetOr(items, j, key, default) ==
    IF HasKey(items, j, key) THEN [rec |-> j, key |-> key] ELSE [rec |-> 0, key |-> default]

\* lines 495, 498, 502, 504: item.get(col, default) if col else item.get(name, default)
ExtractField(items, j, found, f) ==
    IF Truthy(found[f]) THEN GetOr(items, j, found[f], DefaultValue[f])
    ELSE GetOr(items, j, LiteralKey[f], DefaultValue[f])

\* line 494: the mapped column if it holds a value, else the key 'box_id' if it
\* holds a value, else None
ExtractBoxId(items, j, found) ==
    IF Truthy(found["box_id"]) /\ HasKey(items, j, found["box_id"])
    THEN [rec |-> j, key |-> found["box_id"]]
    ELSE GetOr(items, j, LiteralKey["box_id"], DefaultValue["box_id"])

\* lines 494-504: the non-IMEI fields of record j
ExtractFields(items, j, found) ==
    [f \in CanonicalFields \ {"imei"} |->
        IF f = "box_id" THEN ExtractBoxId(items, j, found)
        ELSE ExtractField(items, j, found, f)]

ImeiSourceNoFallback(imei_col, columns) == imei_col

\* lines 479-488: `if not imei_col: ... if columns: imei_col = columns[0]`
ImeiSource(imei_col, columns) ==
    IF ~Truthy(imei_col) /\ columns # <<>> THEN columns[1] ELSE imei_col

InitMapper ==
    /\ task = [r \in Req |-> IdleTask]
    /\ loop = NoReq
    /\ clock = 0
    /\ labelDir = {}
    /\ pdfDir = {}
    /\ archived = {}
    /\ db = <<>>
    /\ sessions = <<>>
    /\ logFile = NoFile
    /\ started = 0
    /\ faults = 0
    /\ \E first \in ColumnLists :
          \/ vin = [items |-> <<>>]
          \/ \E rest \in SeqsUpTo(LaterRecords(first), MaxRecords - 1) :
                vin = [items |-> <<first>> \o rest]
    /\ vout = [pc |-> "map", found |-> [f \in CanonicalFields |-> NoColumn],
               imei_col |-> NoColumn, idx |-> 0, reads |-> <<>>, fields |-> <<>>]

\* lines 440-488: the columns of the first record are mapped, once
MapColumns ==
    /\ vout.pc = "map"
    /\ IF vin.items # <<>>
       THEN LET columns == vin.items[1]
                found == [f \in CanonicalFields |->
                             NormalizeColumnName(columns, PossibleNames[f])]
            IN  vout' = [vout EXCEPT !.found = found,
                                     !.imei_col = ImeiSource(found["imei"], columns),
                                     !.pc = "loop"]
       ELSE vout' = [vout EXCEPT !.pc = "end"]
    /\ UNCHANGED <<task, loop, clock, labelDir, pdfDir, archived, db, sessions,
                   logFile, started, faults, vin>>

\* lines 490-504: the fields of the next record are read through the mapped columns
ReadImei ==
    /\ vout.pc = "loop"
    /\ LET j == vout.idx + 1
           imei == IF Truthy(vout.imei_col) THEN Get(vin.items, j, vout.imei_col)
                   ELSE Get(vin.items, j, DefaultImeiKey)
       IN  vout' = [vout EXCEPT !.reads = Append(@, imei),
                                !.fields = Append(@, ExtractFields(vin.items, j, vout.found)),
                                !.idx = j,
                                !.pc = IF j < Len(vin.items) THEN "loop" ELSE "end"]
    /\ UNCHANGED <<task, loop, clock, labelDir, pdfDir, archived, db, sessions,
                   logFile, started, faults, vin>>

NextMapper == MapColumns \/ ReadImei

SpecMapper == InitMapper /\ [][NextMapper]_vars

(* ------------------- the color extractor on its own ------------------- *)
DescSmartGold == <<"S", "M", "A", "R", "T", " ", "8", " ", "6", "4", "+", "3", " ", "S", "H", "I", "N", "Y", " ", "G", "O", "L", "D">>
DescPhoneBlack == <<"P", "H", "O", "N", "E", " ", "X", " ", "B", "L", "A", "C", "K">>
DescSmartOnly == <<"S", "M", "A", "R", "T", " ", "8", " ", "6", "4", "+", "3">>

DescAlphabet == {" ", "b", "8", "+"}

ColorInputs ==
    SeqsUpTo(DescAlphabet, MaxDescLen)
        \cup {DescSmartGold, DescPhoneBlack, DescSmartOnly, NanLiteral, NoDescriptor}

InitColor ==
    /\ task = [r \in Req |-> IdleTask]
    /\ loop = NoReq
    /\ clock = 0
    /\ labelDir = {}
    /\ pdfDir = {}
    /\ archived = {}
    /\ db = <<>>
    /\ sessions = <<>>
    /\ logFile = NoFile
    /\ started = 0
    /\ faults = 0
    /\ vin \in ColorInputs
    /\ vout = [pc |-> "call", result |-> <<>>]

\* extract_color_from_product applied to one descriptor
ExtractColor ==
    /\ vout.pc = "call"
    /\ vout' = [pc |-> "returned", result |-> ExtractColorFromProduct(vin)]
    /\ UNCHANGED <<task, loop, clock, labelDir, pdfDir, archived, db, sessions,
                   logFile, started, faults, vin>>

NextColor == ExtractColor

SpecColor == InitColor /\ [][NextColor]_vars

(* ------------------- the color of a record's label ------------------- *)
\* a value of the record under the key read for a field (the mapped column, or
\* the field's own name): a string, None (NoDescriptor), or no such key
AbsentKey == <<"no key">>

\* str(v): None reads 'None'
Str(v) == IF v = NoDescriptor THEN <<"N", "o", "n", "e">> ELSE v

\* str(item.get(key, default))
GetStr(v, default) == IF v = AbsentKey THEN default ELSE Str(v)

\* `if item.get('product')`: a missing key, None and '' are false
ValueTruthy(v) == v \notin {AbsentKey, NoDescriptor, <<>>}

\* line 498: the mapped column, else the key 'product' when it holds a value
ProductString(product_col, v) ==
    IF product_col THEN GetStr(v, <<>>)
    ELSE IF ValueTruthy(v) THEN GetStr(v, <<>>) ELSE <<>>

\* line 502: the mapped color column, else the key 'color'
ColorColumnValue(v) == GetStr(v, UnknownColor)

LabelColorColumnFirst(product_string, v) ==
    IF ValueTruthy(v) THEN ColorColumnValue(v)
    ELSE ExtractColorFromProduct(product_string)

\* lines 499-502: the product string, unless empty or 'nan', decides the color
LabelColor(product_string, v) ==
    IF product_string # <<>> /\ product_string # NanLiteral
    THEN ExtractColorFromProduct(product_string)
    ELSE ColorColumnValue(v)

DescShort == <<"b", " ", "8", "+", " ", "b">>
DescTwoWords == <<"b", " ", "b", "b">>
ColorBlack == <<"B", "l", "a", "c", "k">>

ProductValues ==
    {AbsentKey, NoDescriptor, <<>>, NanLiteral, DescShort, DescTwoWords, DescSmartGold,
     <<"b">>, <<" ">>}

ColorValues == {AbsentKey, NoDescriptor, <<>>, ColorBlack}

InitPrecedence ==
    /\ task = [r \in Req |-> IdleTask]
    /\ loop = NoReq
    /\ clock = 0
    /\ labelDir = {}
    /\ pdfDir = {}
    /\ archived = {}
    /\ db = <<>>
    /\ sessions = <<>>
    /\ logFile = NoFile
    /\ started = 0
    /\ faults = 0
    /\ vin \in [product_col : BOOLEAN, product : ProductValues, color : ColorValues]
    /\ vout = [pc |-> "read", product_string |-> <<>>, color |-> <<>>]

\* lines 497-502 for one record
ChooseColor ==
    /\ vout.pc = "read"
    /\ LET product_string == ProductString(vin.product_col, vin.product)
       IN  vout' = [pc |-> "chosen", product_string |-> product_string,
                    color |-> LabelColor(product_string, vin.color)]
    /\ UNCHANGED <<task, loop, clock, labelDir, pdfDir, archived, db, sessions,
                   logFile, started, faults, vin>>

NextPrecedence == ChooseColor

SpecPrecedence == InitPrecedence /\ [][NextPrecedence]_vars

(* -------------------- the grid paginator on its own ------------------- *)
\* the output directory holding the labels 1..n of one IMEI
LabelsUpTo(n) ==
    {[name |-> [imei |-> ImeiA, n |-> k], second |-> NoValue, by |-> 0] : k \in 1..n}

\* create_pdf_from_barcodes returned None
NoPdf == [pdf |-> -1]

InitSheet ==
    /\ task = [r \in Req |-> IdleTask]
    /\ loop = NoReq
    /\ clock = 0
    /\ pdfDir = {}
    /\ archived = {}
    /\ db = <<>>
    /\ sessions = <<>>
    /\ logFile = NoFile
    /\ started = 0
    /\ faults = 0
    /\ \/ /\ \E n \in 0..MaxImages : labelDir = LabelsUpTo(n)
          /\ \E c \in 1..MaxCols, w \in 1..MaxRows : vin = [grid_cols |-> c, grid_rows |-> w]
       \/ /\ labelDir = LabelsUpTo(67)
          /\ vin = [grid_cols |-> DefaultGridCols, grid_rows |-> DefaultGridRows]
    /\ vout = [pc |-> "call", pdf_filename |-> NoPdf, barcode_files |-> <<>>,
               total_pages |-> 0, page_num |-> 0, i |-> 0, slots |-> <<>>,
               result |-> NoPdf, resp |-> "none"]

\* lines 613-660: file name, glob and sort, the early return, the page count
SheetBegin ==
    /\ vout.pc = "call"
    /\ LET barcode_files == SortFiles(Glob(labelDir))
           total_pages == TotalPages(Len(barcode_files), vin.grid_cols * vin.grid_rows)
       IN  IF NoBarcodeFiles(barcode_files)
           THEN vout' = [vout EXCEPT !.result = NoPdf, !.pc = "returned"]
           ELSE vout' = [vout EXCEPT !.pdf_filename = [pdf |-> clock],
                                     !.barcode_files = barcode_files,
                                     !.total_pages = total_pages,
                                     !.pc = IF total_pages > 0 THEN "draw" ELSE "save"]
    /\ UNCHANGED <<task, loop, clock, labelDir, pdfDir, archived, db, sessions,
                   logFile, started, faults, vin>>

\* lines 662-674: the next image of the page, the next page, or the end of both loops
NextImage(v) ==
    IF v.i + 1 < Len(PageImages(v.barcode_files, v.page_num, vin.grid_cols * vin.grid_rows))
    THEN [v EXCEPT !.i = v.i + 1]
    ELSE IF v.page_num + 1 < v.total_pages
         THEN [v EXCEPT !.page_num = v.page_num + 1, !.i = 0]
         ELSE [v EXCEPT !.pc = "save"]

OnDrawRaiseAbort(v) == [v EXCEPT !.pc = "raised"]

\* lines 688-689: `except Exception` around drawImage; the loop goes on
OnDrawRaise(v) == NextImage(v)

\* lines 674-689: one image is positioned and drawn, or its drawing raises
DrawImage ==
    /\ vout.pc = "draw"
    /\ LET page_images == PageImages(vout.barcode_files, vout.page_num,
                                     vin.grid_cols * vin.grid_rows)
           slot == [image |-> page_images[vout.i + 1], page |-> vout.page_num,
                    row |-> GridRow(vout.i, vin.grid_cols),
                    col |-> GridCol(vout.i, vin.grid_cols), drawn |-> TRUE]
       IN  \/ /\ vout' = NextImage([vout EXCEPT !.slots = Append(@, slot)])
              /\ UNCHANGED faults
           \/ /\ faults < MaxFaults
              /\ faults' = faults + 1
              /\ vout' = OnDrawRaise([vout EXCEPT
                                         !.slots = Append(@, [slot EXCEPT !.drawn = FALSE])])
    /\ UNCHANGED <<task, loop, clock, labelDir, pdfDir, archived, db, sessions,
                   logFile, started, vin>>

\* lines 692-721: c.save(), the PDF's record, return pdf_filename
SheetSave ==
    /\ vout.pc = "save"
    /\ pdfDir' = WriteFile(pdfDir, [name |-> vout.pdf_filename,
                                    labels |-> {vout.slots[k].image : k \in
                                                  {j \in 1..Len(vout.slots) :
                                                       vout.slots[j].drawn}},
                                    by |-> 0])
    /\ db' = Append(db, [filename |-> vout.pdf_filename, type |-> "pdf",
                         session |-> clock, imei |-> NoValue, box_id |-> NoValue,
                         by |-> 0])
    /\ vout' = [vout EXCEPT !.result = vout.pdf_filename, !.pc = "returned"]
    /\ UNCHANGED <<task, loop, clock, labelDir, archived, sessions, logFile,
                   started, faults, vin>>

\* app.py 346-380, create_pdf_from_existing: 404 when no PDF came back
CreatePdfRespond ==
    /\ vout.pc = "returned"
    /\ vout' = [vout EXCEPT !.resp = IF vout.result = NoPdf THEN "http404" ELSE "ok",
                            !.pc = "done"]
    /\ UNCHANGED <<task, loop, clock, labelDir, pdfDir, archived, db, sessions,
                   logFile, started, faults, vin>>

NextSheet == SheetBegin \/ DrawImage \/ SheetSave \/ CreatePdfRespond

SpecSheet == InitSheet /\ [][NextSheet]_vars

(* ---------------------- archiving on its own --------------------------- *)
NothingToArchiveNever(png_files, pdf_files) == FALSE

\* line 50: `if not png_files and not pdf_files`
NothingToArchive(png_files, pdf_files) == png_files = {} /\ pdf_files = {}

\* lines 52-59: the summary returned when there is nothing to archive
EmptyArchiveResult ==
    [session_id |-> NoValue, archived_files |-> {}, total_files |-> 0,
     png_count |-> 0, pdf_count |-> 0]

\* ArchiveManager.archive_files: the summary of a relocation
ArchiveResult(png_files, pdf_files) ==
    [session_id |-> <<"c", "l", "e", "a", "n", "u", "p">>,
     archived_files |-> png_files \cup pdf_files,
     total_files |-> Cardinality(png_files) + Cardinality(pdf_files),
     png_count |-> Cardinality(png_files), pdf_count |-> Cardinality(pdf_files)]

OldPdfs == {[name |-> [pdf |-> 0], labels |-> {}, by |-> 0]}

InitArchive ==
    /\ task = [r \in Req |-> IdleTask]
    /\ loop = NoReq
    /\ clock = 0
    /\ labelDir \in SUBSET LabelsUpTo(MaxOldLabels)
    /\ pdfDir \in SUBSET OldPdfs
    /\ archived = {}
    /\ db = <<>>
    /\ sessions = <<>>
    /\ logFile = NoFile
    /\ started = 0
    /\ faults = 0
    /\ vin = <<>>
    /\ vout = [pc |-> "ready", calls |-> 0, manager_calls |-> 0, results |-> <<>>]

\* archive_existing_files, lines 42-70: one call
ArchiveExistingFiles ==
    /\ vout.pc = "ready"
    /\ vout.calls < MaxArchiveCalls
    /\ IF NothingToArchive(labelDir, pdfDir)
       THEN /\ vout' = [vout EXCEPT !.calls = @ + 1,
                                    !.results = Append(@, EmptyArchiveResult)]
            /\ UNCHANGED <<labelDir, pdfDir, archived, faults>>
       ELSE \/ /\ archived' = ArchiveFiles(labelDir \cup pdfDir)
               /\ labelDir' = {}
               /\ pdfDir' = {}
               /\ vout' = [vout EXCEPT !.calls = @ + 1, !.manager_calls = @ + 1,
                                       !.results = Append(@, ArchiveResult(labelDir, pdfDir))]
               /\ UNCHANGED faults
            \/ /\ faults < MaxFaults
               /\ faults' = faults + 1
               /\ vout' = [vout EXCEPT !.calls = @ + 1, !.manager_calls = @ + 1,
                                       !.pc = "raised"]
               /\ UNCHANGED <<labelDir, pdfDir, archived>>
    /\ UNCHANGED <<task, loop, clock, db, sessions, logFile, started, vin>>

\* a label is written between two calls (lines 541-543)
WriteOldLabel ==
    /\ vout.pc = "ready"
    /\ vout.calls < MaxArchiveCalls
    /\ \E f \in LabelsUpTo(MaxOldLabels) \ labelDir : labelDir' = WriteFile(labelDir, f)
    /\ UNCHANGED <<task, loop, clock, pdfDir, archived, db, sessions, logFile,
                   started, faults, vin, vout>>

NextArchive == ArchiveExistingFiles \/ WriteOldLabel

SpecArchive == InitArchive /\ [][NextArchive]_vars


(* ------------------- identifier log, call by call --------------------- *)
\* the pairs the batch loop passes at line 572: an accepted IMEI and a non-empty
\* second value, generated or explicit
LogRows ==
    [imei : {ImeiA, Candidate(ImeiA, SuffixLo)},
     imei2 : {Candidate(ImeiA, SuffixLo), Candidate(ImeiA, SuffixHi)},
     by : {1}, auto : BOOLEAN]

InitLog ==
    /\ task = [r \in Req |-> IdleTask]
    /\ loop = NoReq
    /\ clock = 0
    /\ labelDir = {}
    /\ pdfDir = {}
    /\ archived = {}
    /\ db = <<>>
    /\ sessions = <<>>
    /\ logFile = NoFile
    /\ started = 0
    /\ faults = 0
    /\ vin = <<>>
    /\ vout = [pc |-> "log", calls |-> <<>>]

\* _append_imei_log, lines 87-96: one call
AppendImeiLogCall ==
    /\ vout.pc = "log"
    /\ Len(vout.calls) < MaxAppends
    /\ \E row \in LogRows :
          /\ logFile' = AppendImeiLog(logFile, row)
          /\ vout' = [vout EXCEPT !.calls = Append(@, row)]
    /\ UNCHANGED <<task, loop, clock, labelDir, pdfDir, archived, db, sessions,
                   started, faults, vin>>

NextLog == AppendImeiLogCall

SpecLog == InitLog /\ [][NextLog]_vars

(* ============================== claims ================================ *)
Failures == {"http400", "http500"}

FilesBy(b) == {f \in labelDir \cup archived : f.by = b}
RowsBy(b) == {i \in 1..Len(db) : db[i].by = b}
LinesBy(b) == {i \in 1..Len(DataLines) : DataLines[i].by = b}
OkRecords(t) == {i \in 1..Len(t.outcome) : t.outcome[i] = "ok"}

\* C1: after any sequence of batches run with auto-generation on, no secondary
\* identifier value appears on more than one data line of the identifier log.
C1_LogSecondariesUnique ==
    \A i, j \in 1..Len(DataLines) :
        i # j => DataLines[i].imei2 # DataLines[j].imei2

BatchPcs == {"archive", "init", "validate", "resolve", "generate", "render", "save",
             "insert", "append", "return"}

C3_ArchiveBeforeLabels ==
    \A r \in Req :
        (task[r].bid # 0 /\ ~task[r].archiveDone) => FilesBy(task[r].bid) = {}

\* C3 witness: a batch whose archiving relocated earlier files has written a label.
C3_Witness ==
    \E r \in Req :
        /\ task[r].archiveDone
        /\ archived # {}
        /\ \E f \in labelDir : f.by = task[r].bid

\* C4: when the archive step raises, the batch writes no label file, inserts no
\* record, appends no log line, and the request ends with an error response.
C4_ArchiveFailureIsFatal ==
    \A r \in Req :
        task[r].archiveRaised =>
            /\ FilesBy(task[r].bid) = {}
            /\ RowsBy(task[r].bid) = {}
            /\ LinesBy(task[r].bid) = {}
            /\ task[r].pc \in {"raised", "done"}
            /\ task[r].pc = "done" => task[r].resp \in Failures

\* C4 witness: a request whose archive step raised has its response.
C4_Witness == \E r \in Req : task[r].archiveRaised /\ task[r].pc = "done"

\* C5: a batch that generated no file is answered with a failure, on both routes.
C5_ZeroOutputIsFailure ==
    \A r \in Req :
        (task[r].pc = "done" /\ task[r].files = <<>>) => task[r].resp \in Failures

\* C6: an invalid IMEI or an exception while a record is rendered, saved or
\* inserted never leaves generate_barcodes_from_data as an exception; the record
\* is not among the generated files and every record of the input is processed.
C6_RecordFailureIsSkipped ==
    \A r \in Req :
        /\ task[r].pc = "raised" => task[r].archiveRaised
        /\ (task[r].pc \in {"return", "check", "pdf", "done"} /\ ~task[r].archiveRaised)
              => /\ task[r].idx = task[r].n
                 /\ Len(task[r].outcome) = task[r].n
                 /\ Len(task[r].files) = Cardinality(OkRecords(task[r]))
                 /\ \A k \in 1..Len(task[r].files) :
                        task[r].files[k].n \in OkRecords(task[r])

\* C6 witness: a batch returned after its first record raised and its second
\* record produced a file.
C6_Witness == \E r \in Req : task[r].pc = "check" /\ task[r].outcome = <<"error", "ok">>

NanOrNull == {<<"n", "a", "n">>, <<"n", "u", "l", "l">>}

C8_EndToEndCounts ==
    \A r \in Req :
        (/\ task[r].pc = "check"
         /\ task[r].auto
         /\ task[r].n >= 1
         /\ Cardinality(OkRecords(task[r])) = task[r].n)
        => /\ Cardinality({f \in labelDir : f.by = task[r].bid}) = task[r].n
           /\ Cardinality(RowsBy(task[r].bid)) = task[r].n
           /\ Cardinality(LinesBy(task[r].bid)) = task[r].n
           /\ Cardinality({i \in 1..Len(sessions) :
                              /\ sessions[i].session_id = task[r].session
                              /\ sessions[i].total_files = task[r].n}) = 1

\* The part of C8 that the code keeps: the file, row and log line counts.
C8_CountsWithoutSession ==
    \A r \in Req :
        (/\ task[r].pc = "check"
         /\ task[r].auto
         /\ task[r].n >= 1
         /\ Cardinality(OkRecords(task[r])) = task[r].n)
        => /\ Cardinality({f \in labelDir : f.by = task[r].bid}) = task[r].n
           /\ Cardinality(RowsBy(task[r].bid)) = task[r].n
           /\ Cardinality(LinesBy(task[r].bid)) = task[r].n
           /\ Len(task[r].files) = task[r].n

\* C9: generate_unique_imei returns a value that was not in used_set when it was
\* called, the value is in used_set on return, and no other member changed.
C9_GeneratedIsFresh ==
    [][\A r \in Req :
          (task[r].pc = "generate" /\ task'[r].pc = "render")
          => /\ task'[r].second \notin task[r].used
             /\ task'[r].second \in task'[r].used
             /\ task'[r].used \ {task'[r].second} = task[r].used]_vars

\* C9 witness: the generator has returned from a call made with a non-empty set.
C9_Witness ==
    \E r \in Req :
        task[r].pc = "render" /\ task[r].gen /\ Cardinality(task[r].used) >= 2

\* C10: within one batch an auto-generated secondary identifier never equals the
\* secondary value of an earlier record of that batch, generated or supplied.
C10_NoCollisionInBatch ==
    \A i, j \in 1..Len(DataLines) :
        (i < j /\ DataLines[i].by = DataLines[j].by /\ DataLines[j].auto)
            => DataLines[i].imei2 # DataLines[j].imei2

IsDigit(c) == \E i \in 1..Len(DigitChar) : DigitChar[i] = c

\* int(s) for a string of decimal digits
RECURSIVE StrToNat(_)
StrToNat(s) ==
    IF s = <<>> THEN 0
    ELSE 10 * StrToNat(SubSeq(s, 1, Len(s) - 1)) + (IndexIn(s[Len(s)], DigitChar) - 1)

\* C11: every value returned by generate_unique_imei is the first 8 characters of
\* the primary (the whole primary when it is shorter) followed by exactly 7 decimal
\* digits whose numeric value lies in 1000000..9999999.
C11_GeneratedFormat ==
    vout.pc = "returned" =>
        LET p == IF Len(vin.base_imei) < 8 THEN Len(vin.base_imei) ELSE 8
            tail == SubSeq(vout.result, p + 1, Len(vout.result))
        IN  /\ Len(vout.result) = p + 7
            /\ \A i \in 1..p : vout.result[i] = vin.base_imei[i]
            /\ \A i \in 1..Len(tail) : IsDigit(tail[i])
            /\ StrToNat(tail) >= 1000000
            /\ StrToNat(tail) <= 9999999

\* C11 witness: the generator returned for a primary longer than 8 characters,
\* with the largest suffix of the range.
C11_Witness ==
    /\ vout.pc = "returned"
    /\ Len(vin.base_imei) > 8
    /\ vout.result = Candidate(vin.base_imei, SuffixHi)

\* the suffix range holds no value that generate_unique_imei would accept
Exhausted(t) == \A n \in Suffixes : ~CandidateAccepted(Candidate(t.imei, n), t.used)

\* C12: every batch eventually leaves generate_barcodes_from_data, by its return
\* or by the archive failure, and every call of generate_unique_imei eventually
\* returns, for every primary and every used set loaded from the log.
C12_EveryBatchEnds ==
    \A r \in Req :
        /\ (task[r].pc \in BatchPcs) ~> (task[r].pc \notin BatchPcs)
        /\ (task[r].pc = "generate") ~> (task[r].pc = "render")

\* What the code keeps of C12: a batch ends unless a call of generate_unique_imei
\* finds every value of the suffix range in used_set.
C12_EndsUnlessExhausted ==
    \A r \in Req :
        (task[r].pc \in BatchPcs)
            ~> (task[r].pc \notin BatchPcs \/ (task[r].pc = "generate" /\ Exhausted(task[r])))

\* the (variant, key) positions that match under M, and the key of the first of
\* them by variant priority, then by key position
MatchingPairs(columns, possible_names, M(_, _)) ==
    {p \in (1..Len(possible_names)) \X (1..Len(columns)) :
        M(possible_names[p[1]], columns[p[2]])}

FirstPairKey(columns, possible_names, M(_, _)) ==
    LET pairs == MatchingPairs(columns, possible_names, M)
    IN  IF pairs = {} THEN NoColumn
        ELSE columns[(CHOOSE p \in pairs :
                        \A o \in pairs :
                            p[1] < o[1] \/ (p[1] = o[1] /\ p[2] <= o[2]))[2]]

\* the match as claimed: the key is lower-cased
MatchLoweredKey(variant, key) ==
    \/ IsSubstring(Strip(Lower(variant)), Lower(key))
    \/ IsSubstring(Lower(key), Strip(Lower(variant)))

\* the match as amended: the key is lower-cased and trimmed
MatchTrimmedKey(variant, key) ==
    \/ IsSubstring(Strip(Lower(variant)), Strip(Lower(key)))
    \/ IsSubstring(Strip(Lower(key)), Strip(Lower(variant)))

ExampleResolved ==
    vin.items[1] = ExampleColumns =>
        /\ vout.found["imei"] = KeySerialNumber
        /\ vout.found["model"] = KeyDeviceModel
        /\ vout.found["color"] = KeyColour

\* C13 as claimed: for each canonical field _normalize_column_name returns the key
\* of the first pair, by variant priority then key order, where the lower-cased
\* trimmed variant is a substring of the lower-cased key or the key a substring of
\* the variant, and no key when no pair matches; the example columns resolve.
C13_FirstMatchOnLoweredKey ==
    vout.pc \in {"loop", "end"} /\ vin.items # <<>> =>
        /\ \A f \in CanonicalFields :
              vout.found[f] = FirstPairKey(vin.items[1], PossibleNames[f], MatchLoweredKey)
        /\ ExampleResolved

\* C13 amended: the same, the key being lower-cased and trimmed of surrounding
\* whitespace before the two substring tests.
C13_FirstMatchOnTrimmedKey ==
    vout.pc \in {"loop", "end"} /\ vin.items # <<>> =>
        /\ \A f \in CanonicalFields :
              vout.found[f] = FirstPairKey(vin.items[1], PossibleNames[f], MatchTrimmedKey)
        /\ ExampleResolved

\* C13 witness: the example columns were mapped.
C13_Witness ==
    /\ vout.pc = "loop"
    /\ vin.items[1] = ExampleColumns
    /\ vout.found["imei"] = KeySerialNumber

\* no key matches any IMEI variant
NoImeiMatch(columns) ==
    \A k \in 1..Len(ImeiNames), i \in 1..Len(columns) :
        ~MatchTrimmedKey(ImeiNames[k], columns[i])

Tokens(d) == IF d = NoDescriptor THEN <<>> ELSE Split(d)
Markers(d) == {i \in 1..Len(Tokens(d)) : IsStorageSpec(Tokens(d)[i])}
FirstMarker(d) == CHOOSE i \in Markers(d) : \A j \in Markers(d) : i <= j
AfterMarker(d) == SubSeq(Tokens(d), FirstMarker(d) + 1, Len(Tokens(d)))

\* C15: for every descriptor with a token holding both a digit and a '+', the
\* result is every token after the first such token, joined with single spaces
\* and upper-cased (the sentinel when no token follows it).
C15_ColorAfterMarker ==
    (vout.pc = "returned" /\ Markers(vin) # {}) =>
        vout.result = IF AfterMarker(vin) = <<>> THEN UnknownColor
                      ELSE Upper(Join(AfterMarker(vin)))

\* What the code keeps of C15: the rule holds when a token follows the marker.
C15_ColorAfterInnerMarker ==
    /\ (vout.pc = "returned" /\ Markers(vin) # {} /\ AfterMarker(vin) # <<>>) =>
          vout.result = Upper(Join(AfterMarker(vin)))
    /\ (vout.pc = "returned" /\ vin = DescSmartGold) => vout.result = <<"S", "H", "I", "N", "Y", " ", "G", "O", "L", "D">>

\* C16: a descriptor with no marker token and two or more tokens gives its last
\* two tokens joined with a space and upper-cased ("PHONE X BLACK" gives
\* "X BLACK"); an empty, missing or literal "nan" descriptor gives the sentinel.
C16_FallbackLastTwo ==
    vout.pc = "returned" =>
        /\ (Markers(vin) = {} /\ Len(Tokens(vin)) >= 2) =>
              vout.result = Upper(Tokens(vin)[Len(Tokens(vin)) - 1] \o <<" ">>
                                      \o Tokens(vin)[Len(Tokens(vin))])
        /\ vin \in {<<>>, NoDescriptor, NanLiteral} => vout.result = UnknownColor
        /\ vin = DescPhoneBlack => vout.result = <<"X", " ", "B", "L", "A", "C", "K">>

\* C16 witness: a lower-case descriptor of three tokens without a marker returned.
C16_Witness ==
    /\ vout.pc = "returned"
    /\ Markers(vin) = {}
    /\ Len(Tokens(vin)) = 3
    /\ vout.result # Join(FallbackParts(Tokens(vin)))

\* the positions laid out on page p, the smallest q with q * d >= n, and the runs
\* of the paginator that went through both loops
SlotsOn(p) == {k \in 1..Len(vout.slots) : vout.slots[k].page = p}
CeilDiv(n, d) == CHOOSE q \in 0..n : q * d >= n /\ (q - 1) * d < n
PerPage == vin.grid_cols * vin.grid_rows
LaidOut == vout.pc \in {"save", "returned", "done"} /\ labelDir # {}

\* C17: for n >= 1 images and cols, rows >= 1 the paginator lays out exactly
\* ceil(n / (cols*rows)) pages, every page but the last with cols*rows placements
\* and the last with the remainder (every one of them drawn when no drawing
\* raised); 67 images on a 5 x 12 grid give 2 pages with 60 and 7 placements.
C17_PageCount ==
    LaidOut =>
        LET n == Cardinality(labelDir)
            pages == CeilDiv(n, PerPage)
        IN  /\ vout.total_pages = pages
            /\ {vout.slots[k].page : k \in 1..Len(vout.slots)} = 0..(pages - 1)
            /\ \A p \in 0..(pages - 2) : Cardinality(SlotsOn(p)) = PerPage
            /\ Cardinality(SlotsOn(pages - 1)) = n - (pages - 1) * PerPage
            /\ faults = 0 => \A k \in 1..Len(vout.slots) : vout.slots[k].drawn
            /\ (n = 67 /\ vin.grid_cols = 5 /\ vin.grid_rows = 12)
                  => /\ pages = 2
                     /\ Cardinality(SlotsOn(0)) = 60
                     /\ Cardinality(SlotsOn(1)) = 7

\* C17 witness: the 67 images were laid out on the 5 x 12 grid.
C17_Witness ==
    /\ vout.pc = "returned"
    /\ Cardinality(labelDir) = 67
    /\ vout.total_pages = 2

\* C18: the images are laid out in lexicographic file name order, the i-th image
\* of a page in row i div cols and column i mod cols; every image has exactly one
\* (page, row, column) cell with row < grid_rows and column < grid_cols, and no
\* two images share a cell.
C18_RowMajorPlacement ==
    LaidOut =>
        /\ \A k \in 1..Len(vout.slots) :
              LET i == (k - 1) % PerPage
              IN  /\ vout.slots[k].page = (k - 1) \div PerPage
                  /\ vout.slots[k].row = i \div vin.grid_cols
                  /\ vout.slots[k].col = i % vin.grid_cols
                  /\ vout.slots[k].row < vin.grid_rows
                  /\ vout.slots[k].col < vin.grid_cols
                  /\ k > 1 => LexLess(vout.slots[k - 1].image, vout.slots[k].image)
        /\ Cardinality({<<vout.slots[k].page, vout.slots[k].row, vout.slots[k].col>> :
                            k \in 1..Len(vout.slots)}) = Len(vout.slots)
        /\ {vout.slots[k].image : k \in 1..Len(vout.slots)} = Glob(labelDir)
        /\ Len(vout.slots) = Cardinality(labelDir)

\* C18 witness: label 10 was laid out second, before label 2, on a grid of more
\* than one column and with more than one page.
C18_Witness ==
    /\ vout.pc = "save"
    /\ vout.total_pages > 1
    /\ vin.grid_cols > 1
    /\ vout.slots[2].image = LabelFileName([imei |-> ImeiA, n |-> 10])

\* C19: when the drawing of an image raises, the image is skipped: every other
\* image is drawn in the cell its position in the sorted list gives it, the
\* sheet is saved, and create_pdf_from_barcodes returns the sheet's file name.
C19_BadImageSkipped ==
    /\ vout.pc \in {"call", "draw", "save", "returned", "done"}
    /\ (vout.pc \in {"returned", "done"} /\ labelDir # {}) =>
          /\ vout.result = vout.pdf_filename
          /\ vout.result # NoPdf
          /\ \E f \in pdfDir :
                /\ f.name = vout.result
                /\ f.labels = {vout.slots[k].image : k \in
                                  {j \in 1..Len(vout.slots) : vout.slots[j].drawn}}
          /\ Len(vout.slots) = Len(vout.barcode_files)
          /\ Cardinality({k \in 1..Len(vout.slots) : ~vout.slots[k].drawn}) = faults
          /\ \A k \in 1..Len(vout.slots) :
                /\ vout.slots[k].image = vout.barcode_files[k]
                /\ vout.slots[k].page = (k - 1) \div PerPage
                /\ vout.slots[k].row = ((k - 1) % PerPage) \div vin.grid_cols
                /\ vout.slots[k].col = ((k - 1) % PerPage) % vin.grid_cols

\* C19 witness: a sheet was returned although the drawing of an image raised, and
\* an image after that one was drawn.
C19_Witness ==
    /\ vout.pc = "returned"
    /\ vout.result # NoPdf
    /\ \E k, j \in 1..Len(vout.slots) :
          k < j /\ ~vout.slots[k].drawn /\ vout.slots[j].drawn

\* C20: with no label image in the output directory create_pdf_from_barcodes
\* returns None, writes no sheet file and inserts no record.
C20_NoArtifactsNoSheet ==
    labelDir = {} =>
        /\ vout.pc \in {"call", "returned", "done"}
        /\ vout.result = NoPdf
        /\ pdfDir = {}
        /\ db = <<>>

\* C20 witness: the route answered 404 for an empty output directory.
C20_Witness == labelDir = {} /\ vout.pc = "done" /\ vout.resp = "http404"

\* C21: with no PNG in the label directory and no PDF in the sheet directory,
\* archive_existing_files returns the summary with zero counts and an empty file
\* list, does not call the archive manager, changes no file and raises nothing;
\* the same holds for the next call.
C21_EmptyArchiveIsNoOp ==
    [][(labelDir = {} /\ pdfDir = {} /\ vout'.calls = vout.calls + 1)
          => /\ vout'.results = Append(vout.results, EmptyArchiveResult)
             /\ vout'.results[Len(vout'.results)].total_files = 0
             /\ vout'.results[Len(vout'.results)].archived_files = {}
             /\ vout'.manager_calls = vout.manager_calls
             /\ vout'.pc = "ready"
             /\ UNCHANGED <<labelDir, pdfDir, archived, faults, db, logFile>>]_vars

\* C21 witness: archive_existing_files was called twice on directories that were
\* empty from the start.
C21_Witness ==
    /\ vout.calls = 2
    /\ vout.manager_calls = 0
    /\ vout.results = <<EmptyArchiveResult, EmptyArchiveResult>>
    /\ labelDir = {} /\ pdfDir = {} /\ archived = {}

\* C22: all records written by one batch, the record of its sheet included, carry
\* the one session identifier of that batch, and no record of a different batch
\* carries it.
C22_OneSessionPerBatch ==
    \A i, j \in 1..Len(db) :
        /\ db[i].by = db[j].by => db[i].session = db[j].session
        /\ db[i].by # db[j].by => db[i].session # db[j].session

\* What the code keeps of C22: the records of one batch, the record of its sheet
\* included, carry the session identifier the batch returned.
C22_RecordsCarryBatchSession ==
    /\ \A i, j \in 1..Len(db) : db[i].by = db[j].by => db[i].session = db[j].session
    /\ \A r \in Req : \A i \in RowsBy(task[r].bid) : db[i].session = task[r].session

RecordPcs == {"validate", "resolve", "generate", "render", "save", "insert", "append"}

StepEdges ==
    {<<"validate", "resolve">>, <<"resolve", "generate">>, <<"resolve", "render">>,
     <<"generate", "render">>, <<"render", "save">>, <<"save", "insert">>,
     <<"insert", "append">>}

\* C23: the steps of a record happen in the order validate, resolve, render,
\* write the label file, insert the record, append to the identifier log (or the
\* record is left for the next one), and a line is appended to the log only when
\* the record's label file is on disk and its record is inserted.
C23_StepOrder ==
    [][/\ \A r \in Req :
            (task[r].pc \in RecordPcs /\ task'[r].pc # task[r].pc)
            => \/ <<task[r].pc, task'[r].pc>> \in StepEdges
               \/ /\ task'[r].idx = task[r].idx + 1
                  /\ task'[r].pc \in {"validate", "return"}
       /\ \A r \in Req :
            (task'[r].pc \in RecordPcs \ {"validate"} /\ task'[r].pc # task[r].pc)
            => task[r].pc \in RecordPcs
       /\ logFile' # logFile
            => \E r \in Req :
                  /\ task[r].pc = "append"
                  /\ \E f \in labelDir :
                        /\ f.name = LabelName(task[r])
                        /\ f.by = task[r].bid
                        /\ f.second = task[r].second
                  /\ \E i \in RowsBy(task[r].bid) :
                        /\ db[i].filename = LabelName(task[r])
                        /\ db[i].box_id = task[r].second
                  /\ DataLines' = Append(DataLines,
                                         [imei |-> task[r].imei, imei2 |-> task[r].second,
                                          by |-> task[r].bid, auto |-> task[r].gen])]_vars

\* C23 witness: the second record of a batch is being appended to the log after
\* the first went through every step.
C23_Witness ==
    \E r \in Req :
        /\ task[r].pc = "append"
        /\ task[r].idx = 1
        /\ task[r].auto
        /\ task[r].outcome = <<"ok">>
        /\ Cardinality(LinesBy(task[r].bid)) = 1

MappedValue(j, f) ==
    LET key == IF Truthy(vout.found[f]) THEN vout.found[f] ELSE LiteralKey[f]
    IN  IF HasKey(vin.items, j, key) THEN [rec |-> j, key |-> key]
        ELSE [rec |-> 0, key |-> DefaultValue[f]]

\* C25: the mapping computed from the first record is applied to every record; a
\* record that lacks a resolved non-IMEI key gets the field's default, every
\* record is read and the batch does not fail.
C25_MappingFixedForBatch ==
    /\ \A j \in 1..Len(vout.fields) :
          \A f \in CanonicalFields \ {"imei"} : vout.fields[j][f] = MappedValue(j, f)
    /\ vout.pc = "end" => Len(vout.fields) = Len(vin.items)

\* What the code keeps of C25: the same for every field but box_id.
C25_MappingFixedButBoxId ==
    /\ \A j \in 1..Len(vout.fields) :
          \A f \in CanonicalFields \ {"imei", "box_id"} :
              vout.fields[j][f] = MappedValue(j, f)
    /\ vout.pc = "end" => Len(vout.fields) = Len(vin.items)

IsHeaderLine(row) == row.imei = HeaderRow.imei /\ row.imei2 = HeaderRow.imei2

NameSamples ==
    {ImeiA, ImeiA \o <<"_", "1">>, ImeiA \o <<"_", "2">>, ImeiA \o <<"_", "1", "_", "1">>,
     ImeiA \o <<"_">>, ImeiA \o <<"1">>, SubSeq(ImeiA, 1, 8), <<"1", "2", "3", "4", "5", "_", "1">>}

\* C27: a label is named after the record's IMEI and its position in the input
\* list plus one, skipped records counted; the name differs from the name of every
\* other label of the batch and from the name any other position could get, so the
\* write leaves the batch's earlier labels in place.
C27_LabelNamesDistinct ==
    [][\A r \in Req :
          (task[r].pc = "save" /\ task'[r].pc = SavedPc)
          => LET name == LabelName(task[r])
             IN  /\ name.imei = task[r].imei
                 /\ name.n = Len(task[r].outcome) + 1
                 /\ \E f \in labelDir' : f.by = task[r].bid /\ f.name = name
                 /\ \A g \in labelDir :
                       g.by = task[r].bid
                       => /\ g \in labelDir'
                          /\ LabelFileName(g.name) # LabelFileName(name)
                 /\ \A b \in NameSamples : \A m \in 1..MaxNameIndex :
                       m # name.n
                       => LabelFileName([imei |-> b, n |-> m]) # LabelFileName(name)]_vars

\* C27 witness: two labels of one batch are on disk
C27_Witness ==
    \E f, g \in labelDir :
        /\ f.by = g.by
        /\ f.name.n = 1
        /\ g.name.n = 2
        /\ f.name.imei = g.name.imei

\* C28: a record rejected by IMEI validation changes nothing: the used set, the
\* identifier log, the label directory, the record store and the list of
\* generated filenames are as before, and no identifier is consumed.
C28_RejectedHasNoEffect ==
    [][\A r \in Req :
          (/\ task[r].pc = "validate"
           /\ Len(task'[r].outcome) = Len(task[r].outcome) + 1
           /\ task'[r].outcome[Len(task'[r].outcome)] = "invalid")
          => /\ task'[r].used = task[r].used
             /\ task'[r].files = task[r].files
             /\ logFile' = logFile
             /\ labelDir' = labelDir
             /\ db' = db
             /\ task'[r].idx = task[r].idx + 1]_vars

\* C28 witness: a record was rejected in a batch that had already generated an
\* identifier and written a label
C28_Witness ==
    \E r \in Req :
        /\ task[r].auto
        /\ task[r].outcome = <<"ok", "invalid">>
        /\ task[r].used # {}
        /\ Len(task[r].files) = 1
        /\ logFile # NoFile

\* where a batch has begun and its sheet is not yet built
BeforeSheetPcs ==
    {"init", "validate", "resolve", "generate", "render", "save", "insert", "append",
     "return", "check", "pdf"}

RecordProductString == IF vin.product \in {AbsentKey, NoDescriptor} THEN <<>> ELSE vin.product

\* C30: when the record's product string is non-empty and not 'nan', the color is
\* the extractor's result on it and the color column is ignored; otherwise the
\* color column's value is used.
C30_ProductOverColorColumn ==
    vout.pc = "chosen"
    => IF RecordProductString # <<>> /\ RecordProductString # NanLiteral
       THEN vout.color = ExtractColorFromProduct(RecordProductString)
       ELSE vout.color = ColorColumnValue(vin.color)

\* What the code keeps of C30: the same whenever the mapped product column does
\* not hold None.
C30_ProductStringOverColorColumn ==
    (vout.pc = "chosen" /\ ~(vin.product_col /\ vin.product = NoDescriptor))
    => IF RecordProductString # <<>> /\ RecordProductString # NanLiteral
       THEN vout.color = ExtractColorFromProduct(RecordProductString)
       ELSE vout.color = ColorColumnValue(vin.color)
====
